---------------------------- MODULE Spec2Model ----------------------------
(***************************************************************************)
(* The `create function` command of funktion (cmd/create.go): the initial  *)
(* creation of a function resource (run), the file-watch loop (watchFiles) *)
(* and the per-event reconciliation (updatedFile), together with the name  *)
(* resolution (nameFromFile) and name generation (generateName) it uses.   *)
(*                                                                         *)
(* Names and paths are sequences of one-character strings, so that the     *)
(* path splitting and the decimal formatting are computed character by     *)
(* character.  File contents and runtime names are strings.  The store     *)
(* (ConfigMaps of the namespace) and the file system are the environment.  *)
(*                                                                         *)
(* The installer (install connector, install runtime) is modelled in its   *)
(* own specification, SpecInstall, at the end of the module.               *)
(***************************************************************************)
EXTENDS Integers, Sequences, FiniteSets, TLC

\* Bounds of the model.
MaxQueue == 1
MaxFn == 9
MaxPathLen == 4

VARIABLES
    pc,          \* position of the process
    name,        \* p.name    (flag -n)
    runtime,     \* p.runtime (flag -r)
    source,      \* p.source  (flag -s)
    file,        \* p.file    (flag -f)
    watch,       \* p.watch   (flag -w)
    configMaps,  \* keys of p.configMaps, the start-up snapshot
    runName,     \* the local `name` of run()
    counter,     \* the local `counter` of generateName()
    functions,   \* store: the ConfigMaps labelled kind=function
    runtimes,    \* store: the names of the ConfigMaps labelled kind=runtime
    events,      \* watcher.Events: the events delivered and not yet drawn
    watched,     \* whether the watcher holds a live registration of p.file
    last,        \* what the latest reconciliation did
    prev,        \* the watch reconciliation before it: its path and write
    startRuntimes, \* the runtimes registered when the process started
    resolved     \* result of a stand-alone nameFromFile call

\* The `install connector` and `install runtime` commands (the installer).
VARIABLES
    ipc,           \* position of the installer
    icmd,          \* which command runs: "connector" or "runtime"
    listItems,     \* list.Items, the items of the downloaded bundle
    names,         \* p.names   (the arguments)
    replace,       \* p.replace (flag --replace)
    list,          \* p.list    (flag --list)
    all,           \* p.all     (flag --all)
    existingNames, \* keys of the local `existingNames`
    cms,           \* store: the ConfigMaps of the kind being installed
    idx,           \* how many iterations of the loop over list.Items ran
    count,         \* the local `count`
    ignored,       \* the local `ignored`
    calls,         \* the store writes issued, in order
    ierr           \* the error the installer returned, "" for nil

ivars == <<ipc, icmd, listItems, names, replace, list, all, existingNames, cms,
           idx, count, ignored, calls, ierr>>

vars == <<pc, name, runtime, source, file, watch, configMaps, runName, counter,
          functions, runtimes, events, watched, last, prev,
          startRuntimes, resolved, ivars>>

\* The installer is not running.
InstallerIdle ==
    /\ ipc = "none"
    /\ icmd = "none"
    /\ listItems = <<>>
    /\ names = {}
    /\ replace = FALSE
    /\ list = FALSE
    /\ all = FALSE
    /\ existingNames = {}
    /\ cms = {}
    /\ idx = 0
    /\ count = 0
    /\ ignored = 0
    /\ calls = <<>>
    /\ ierr = ""

-----------------------------------------------------------------------------
\* Characters, paths and names.

Separator == "/"
Dot == "."

\* filepath.Split: the directory (with its final separator) and the file part.
SplitIndex(path) ==
    LET seps == {i \in 1..Len(path) : path[i] = Separator}
    IN  IF seps = {} THEN 0 ELSE CHOOSE i \in seps : \A j \in seps : j <= i

SplitFile(path) == SubSeq(path, SplitIndex(path) + 1, Len(path))

SplitDir(path) == SubSeq(path, 1, SplitIndex(path))

ExtFirstDot(path) ==
    LET base == SplitIndex(path)
        dots == {i \in (base + 1)..Len(path) : path[i] = Dot}
    IN  IF dots = {} THEN <<>>
        ELSE SubSeq(path, CHOOSE i \in dots : \A j \in dots : i <= j, Len(path))

\* filepath.Ext: the suffix beginning at the final dot of the final element.
Ext(path) ==
    LET base == SplitIndex(path)
        dots == {i \in (base + 1)..Len(path) : path[i] = Dot}
    IN  IF dots = {} THEN <<>>
        ELSE SubSeq(path, CHOOSE i \in dots : \A j \in dots : j <= i, Len(path))

\* nameFromFile with the receiver's p.name passed as pname.
NameFromFile(pname, fileName) ==
    IF Len(pname) # 0 THEN pname
    ELSE IF Len(fileName) = 0 THEN <<>>
    ELSE LET nm == SplitFile(fileName)
             l == Len(Ext(nm))
         IN  IF l > 0 THEN SubSeq(nm, 1, Len(nm) - l) ELSE nm

Digits == <<"0", "1", "2", "3", "4", "5", "6", "7", "8", "9">>

\* strconv.Itoa for the non-negative values the counter takes.
RECURSIVE Itoa(_)
Itoa(n) ==
    IF n < 10 THEN <<Digits[n + 1]>>
    ELSE Itoa(n \div 10) \o <<Digits[(n % 10) + 1]>>

prefix == <<"f", "u", "n", "c", "t", "i", "o", "n">>

CandidateFromZero(k) == prefix \o Itoa(k - 1)

\* name := prefix + strconv.Itoa(counter)
Candidate(k) == prefix \o Itoa(k)


-----------------------------------------------------------------------------
\* The environment the model explores.

P_d == <<"d">>
P_aj == <<"d", "/", "a", ".", "j">>
P_ap == <<"d", "/", "a", ".", "p">>
P_dotj == <<"d", "/", ".", "j">>

Paths == {P_d, P_aj, P_ap, P_dotj}

\* The paths that are directories: ioutil.ReadFile fails on them.
Dirs == {P_d}

\* The paths whose events a registration of f reports: the entries of f when
\* it is a directory, and f itself otherwise.
EventPaths(f) ==
    IF f \in Dirs THEN {q \in Paths : SplitDir(q) = f \o <<Separator>>}
    ELSE {q \in Paths : q = f}

\* fsnotify.Op is a bit mask; an event carries a set of operation bits.
Ops == {{"Write"}, {"Rename"}}

\* The operations explored for an event of q under a registration of f:
\* renames are explored for the registered path itself.
EventOps(f, q) == IF q = f THEN Ops ELSE {{"Write"}}

Contents == {"", "A", "B"}

\* What ioutil.ReadFile can return for a path: an error, or the bytes.
ReadResults(path) ==
    {[data |-> "", err |-> TRUE]} \cup
    (IF path \in Dirs THEN {} ELSE {[data |-> c, err |-> FALSE] : c \in Contents})

NilCM == [Name |-> <<>>, Source |-> "", Runtime |-> ""]

NoRec == [kind |-> "none", path |-> <<>>, src |-> "", nm |-> <<>>,
          op |-> "none", wsrc |-> "", err |-> "", calls |-> 0]

NoPrev == [path |-> <<>>, op |-> "none"]

\* The call of a reconciliation that fails, if any: the handler returns at
\* its first error, so at most one failure shows.
Faults == {"none", "add", "list", "runtimes", "write"}

\* cms.List with the function selector: an error, or the items.
ListFunctions(ok) ==
    [err |-> ~ok, items |-> IF ok THEN functions ELSE {}]

ListRuntimesCached(ok) ==
    [err |-> ~ok, items |-> IF ok THEN startRuntimes ELSE {}]

\* ConfigMaps(ns).List with the runtime selector.
ListRuntimes(ok) ==
    [err |-> ~ok, items |-> IF ok THEN runtimes ELSE {}]

\* cms.Create: the store adds the object, or answers with an error.
StoreCreate(store, cm, ok) ==
    IF ok THEN [err |-> FALSE, store |-> store \cup {cm}]
    ELSE [err |-> TRUE, store |-> store]

\* cms.Update: the store replaces the object of that name; it answers with
\* an error when there is none, or when the call fails.
StoreUpdate(store, cm, ok) ==
    IF ok /\ \E r \in store : r.Name = cm.Name
    THEN [err |-> FALSE,
          store |-> {r \in store : r.Name # cm.Name} \cup {cm}]
    ELSE [err |-> TRUE, store |-> store]

-----------------------------------------------------------------------------
\* The functions of create.go.

LoadFileSourceNoEmptyCheck(rd) ==
    IF rd.err THEN [source |-> "", err |-> "read"]
    ELSE [source |-> rd.data, err |-> ""]

\* loadFileSource, given what ReadFile returned.
LoadFileSource(rd) ==
    IF rd.err THEN [source |-> "", err |-> "read"]
    ELSE IF Len(rd.data) = 0 THEN [source |-> "", err |-> "empty"]
    ELSE [source |-> rd.data, err |-> ""]

\* checkRuntimeExists, given what the List of runtimes returned.
CheckRuntimeExists(rt, lr) ==
    IF lr.err THEN "store_runtimes"
    ELSE IF \E r \in lr.items : r = rt THEN ""
    ELSE "unknown_runtime"

\* createFunctionFromSource: the payload, or an error; calls counts the
\* store calls it issued.
CreateFunctionFromSource(nm, src, lr) ==
    IF Len(runtime) = 0 THEN [cm |-> NilCM, err |-> "no_runtime", calls |-> 0]
    ELSE LET e == CheckRuntimeExists(runtime, lr)
         IN  IF e # "" THEN [cm |-> NilCM, err |-> e, calls |-> 1]
             ELSE [cm |-> [Name |-> nm, Source |-> src, Runtime |-> runtime],
                   err |-> "", calls |-> 1]

\* createFunction: the source is the -s flag or, without it, the file.
CreateFunction(nm, rd, lr) ==
    IF Len(source) # 0 THEN CreateFunctionFromSource(nm, source, lr) @@ [src |-> source]
    ELSE IF Len(file) = 0 THEN [cm |-> NilCM, err |-> "no_source", calls |-> 0, src |-> ""]
    ELSE LET ld == LoadFileSource(rd)
         IN  IF ld.err # ""
             THEN [cm |-> NilCM, err |-> ld.err, calls |-> 0, src |-> ""]
             ELSE CreateFunctionFromSource(nm, ld.source, lr) @@ [src |-> ld.source]

FindOldNever(items, nm) == {}

\* updatedFile's scan of the listing for the resource of that name.
FindOld(items, nm) == {r \in items : r.Name = nm}

SourceUnchangedNever(src, old) == FALSE

SourceUnchangedAlways(src, old) == TRUE

\* source == oldSource
SourceUnchanged(src, old) == src = old.Source

\* updatedFile: what it does for the file name of an event, given what the
\* file read (rd), the two List calls (lf, lr) and the write (wok) return
\* and which matching item of the listing comes first (old, NilCM if none).
\* store is the store after the call.
UpdatedFile(fileName, rd, lf, lr, wok, old) ==
    LET ld == LoadFileSource(rd)
        nm == NameFromFile(name, fileName)
        rec == [kind |-> "watch", path |-> fileName, src |-> ld.source,
                nm |-> <<>>, op |-> "none", wsrc |-> "", err |-> "",
                calls |-> 0, store |-> functions]
    IN  IF ld.err # "" THEN [rec EXCEPT !.err = ld.err]
        ELSE IF Len(nm) = 0 THEN [rec EXCEPT !.err = "no_name"]
        ELSE IF lf.err THEN [rec EXCEPT !.nm = nm, !.err = "store_list", !.calls = 1]
        ELSE LET c == CreateFunctionFromSource(nm, ld.source, lr)
                 r1 == [rec EXCEPT !.nm = nm, !.calls = 1 + c.calls]
             IN  IF c.err # "" THEN [r1 EXCEPT !.err = c.err]
                 ELSE IF old # NilCM
                 THEN IF SourceUnchanged(ld.source, old) THEN r1
                      ELSE LET w == StoreUpdate(functions, c.cm, wok)
                           IN  [r1 EXCEPT !.op = "Update", !.wsrc = c.cm.Source,
                                          !.calls = @ + 1, !.store = w.store,
                                          !.err = IF w.err THEN "store_write" ELSE ""]
                 ELSE LET w == StoreCreate(functions, c.cm, wok)
                      IN  [r1 EXCEPT !.op = "Create", !.wsrc = c.cm.Source,
                                     !.calls = @ + 1, !.store = w.store,
                                     !.err = IF w.err THEN "store_write" ELSE ""]

\* The record kept of a reconciliation: its outcome without the store.
Outcome(o) ==
    [kind |-> o.kind, path |-> o.path, src |-> o.src, nm |-> o.nm,
     op |-> o.op, wsrc |-> o.wsrc, err |-> o.err, calls |-> o.calls]

AfterErrorKeepWatching(err) == "watching"

\* watchFiles: err = p.updatedFile(...); if err != nil { log.Fatal(err) }
AfterUpdatedFile(err) == IF err # "" THEN "fatal" ELSE "watching"

-----------------------------------------------------------------------------
\* The process: run, generateName, watchFiles.

RuntimeNames == {"r"}

\* The function resources the store can hold at start-up; one of them was
\* created for another runtime.
InitialFunctions ==
    {[Name |-> <<"a">>, Source |-> "A", Runtime |-> "q"],
     [Name |-> Candidate(1), Source |-> "A", Runtime |-> "r"]}

Init ==
    /\ pc = "start"
    /\ name \in {<<>>, <<"a">>}
    /\ runtime \in {""} \cup RuntimeNames
    /\ source \in {"", "A"}
    /\ file \in {<<>>, P_d, P_aj}
    /\ watch \in BOOLEAN
    /\ configMaps = {}
    /\ runName = <<>>
    /\ counter = 1
    /\ functions \in SUBSET InitialFunctions
    /\ runtimes \in SUBSET RuntimeNames
    /\ startRuntimes = runtimes
    /\ events = <<>>
    /\ watched = FALSE
    /\ last = NoRec
    /\ prev = NoPrev
    /\ resolved = <<>>
    /\ InstallerIdle

\* run, lines 96-117 up to the call of generateName: the snapshot and the
\* name resolved from the file.
RunList ==
    /\ pc = "start"
    /\ \E ok \in BOOLEAN :
         LET resources == ListFunctions(ok)
             nm == NameFromFile(name, file)
         IN  IF resources.err
             THEN /\ pc' = "returned"
                  /\ last' = [NoRec EXCEPT !.kind = "initial", !.path = file,
                                           !.err = "store_list", !.calls = 1]
                  /\ UNCHANGED <<configMaps, runName>>
             ELSE /\ configMaps' = {r.Name : r \in resources.items}
                  /\ runName' = nm
                  /\ pc' = IF Len(nm) = 0 THEN "generate" ELSE "named"
                  /\ last' = [NoRec EXCEPT !.kind = "initial", !.path = file,
                                           !.calls = 1]
    /\ UNCHANGED <<name, runtime, source, file, watch, counter, functions,
                   runtimes, events, watched, prev, startRuntimes,
                   resolved>>
    /\ UNCHANGED ivars

\* One iteration of generateName's loop.
generateName ==
    /\ pc = "generate"
    /\ IF Candidate(counter) \notin configMaps
       THEN /\ runName' = Candidate(counter)
            /\ pc' = "named"
            /\ UNCHANGED counter
       ELSE /\ counter' = counter + 1
            /\ UNCHANGED <<runName, pc>>
    /\ UNCHANGED <<name, runtime, source, file, watch, configMaps, functions,
                   runtimes, events, watched, last, prev, startRuntimes,
                   resolved>>
    /\ UNCHANGED ivars

RunUpdateFromStore(nm) == \E r \in functions : r.Name = nm

\* run, line 118: update is decided by the keys of the snapshot.
RunUpdate(nm) == nm \in configMaps

\* run, lines 118-137, and the set-up of watchFiles, lines 139-155.
RunCreate ==
    /\ pc = "named"
    /\ \E fault \in Faults \ {"list"}, rd \in ReadResults(file) :
         LET addOk == fault # "add"
             lrok == fault # "runtimes"
             wok == fault # "write"
             update == RunUpdate(runName)
             c == CreateFunction(runName, rd, ListRuntimes(lrok))
             w == IF c.err # "" THEN [err |-> FALSE, store |-> functions]
                  ELSE IF update THEN StoreUpdate(functions, c.cm, wok)
                  ELSE StoreCreate(functions, c.cm, wok)
             err == IF c.err # "" THEN c.err
                    ELSE IF w.err THEN "store_write" ELSE ""
         IN  /\ functions' = w.store
             /\ last' = [last EXCEPT
                            !.nm = runName, !.src = c.src, !.err = err,
                            !.op = IF c.err # "" THEN "none"
                                   ELSE IF update THEN "Update" ELSE "Create",
                            !.wsrc = c.cm.Source,
                            !.calls = @ + c.calls + (IF c.err # "" THEN 0 ELSE 1)]
             /\ IF err # "" \/ ~watch \/ Len(file) = 0
                THEN pc' = "returned" /\ watched' = FALSE
                ELSE IF addOk THEN pc' = "watching" /\ watched' = TRUE
                ELSE pc' = "fatal" /\ watched' = FALSE
    /\ UNCHANGED <<name, runtime, source, file, watch, configMaps, runName,
                   counter, runtimes, events, prev, startRuntimes, resolved>>
    /\ UNCHANGED ivars

\* The file system reports an event of a path the registration covers.  A
\* rename of the registered path itself ends the registration (lines
\* 161-162).
FsEvent ==
    /\ pc = "watching"
    /\ watched
    /\ Len(events) < MaxQueue
    /\ \E q \in EventPaths(file) : \E op \in EventOps(file, q) :
         /\ events' = Append(events, [Name |-> q, Op |-> op])
         /\ watched' = IF "Rename" \in op /\ q = file THEN FALSE ELSE watched
    /\ UNCHANGED <<pc, name, runtime, source, file, watch, configMaps, runName,
                   counter, functions, runtimes, last, prev,
                   startRuntimes, resolved>>
    /\ UNCHANGED ivars

\* watchFiles, lines 159-171: one event drawn and reconciled.
WatchEvent ==
    /\ pc = "watching"
    /\ events # <<>>
    /\ LET event == Head(events)
           renamed == "Rename" \in event.Op
       IN  \E fault \in Faults, rd \in ReadResults(event.Name) :
             LET addOk == fault # "add"
                 lrok == fault # "runtimes"
                 wok == fault # "write"
                 lf == ListFunctions(fault # "list")
                 olds == FindOld(lf.items, NameFromFile(name, event.Name))
             IN  \E old \in (IF olds = {} THEN {NilCM} ELSE olds) :
                   IF renamed /\ ~addOk
                   THEN /\ pc' = "fatal"
                        /\ last' = [NoRec EXCEPT !.kind = "watch",
                                                 !.path = event.Name,
                                                 !.err = "add"]
                        /\ UNCHANGED <<functions, prev, watched>>
                   ELSE LET o == UpdatedFile(event.Name, rd, lf,
                                             ListRuntimes(lrok), wok, old)
                        IN  /\ functions' = o.store
                            /\ last' = Outcome(o)
                            /\ prev' = IF last.kind = "watch"
                                       THEN [path |-> last.path, op |-> last.op]
                                       ELSE NoPrev
                            /\ watched' = (renamed \/ watched)
                            /\ pc' = AfterUpdatedFile(o.err)
    /\ events' = Tail(events)
    /\ UNCHANGED <<name, runtime, source, file, watch, configMaps, runName,
                   counter, runtimes, startRuntimes, resolved>>
    /\ UNCHANGED ivars

\* watchFiles, lines 173-174: an error of the watcher is logged.
WatchError ==
    /\ pc = "watching"
    /\ UNCHANGED vars

Running == pc \in {"generate", "named", "watching"}

\* Another client registers the runtime.
RegisterRuntime ==
    /\ Running
    /\ \E r \in RuntimeNames \ runtimes : runtimes' = runtimes \cup {r}
    /\ UNCHANGED <<pc, name, runtime, source, file, watch, configMaps, runName,
                   counter, functions, events, watched, last, prev,
                   startRuntimes, resolved>>
    /\ UNCHANGED ivars

\* Another client removes the runtime.
UnregisterRuntime ==
    /\ Running
    /\ \E r \in runtimes : runtimes' = runtimes \ {r}
    /\ UNCHANGED <<pc, name, runtime, source, file, watch, configMaps, runName,
                   counter, functions, events, watched, last, prev,
                   startRuntimes, resolved>>
    /\ UNCHANGED ivars

\* Another client deletes a function resource.  The synchronizer is taken
\* to be the only writer of functions while it watches (the single-writer
\* assumption); a deletion is explored between the start-up snapshot and the
\* initial write, where the snapshot can go stale.
ExternalDelete ==
    /\ pc \in {"generate", "named"}
    /\ \E r \in functions : functions' = functions \ {r}
    /\ UNCHANGED <<pc, name, runtime, source, file, watch, configMaps, runName,
                   counter, runtimes, events, watched, last, prev,
                   startRuntimes, resolved>>
    /\ UNCHANGED ivars

Next ==
    \/ RunList
    \/ generateName
    \/ RunCreate
    \/ FsEvent
    \/ WatchEvent
    \/ WatchError
    \/ RegisterRuntime
    \/ UnregisterRuntime
    \/ ExternalDelete

Spec == Init /\ [][Next]_vars

-----------------------------------------------------------------------------
\* generateName on its own, for every snapshot over a set of names.

\* The names a snapshot is drawn from: function1 .. function<MaxFn>, and two
\* names no candidate equals.
SnapshotNames ==
    {Candidate(k) : k \in 1..MaxFn} \cup {prefix, prefix \o <<"0">>}

InitGen ==
    /\ pc = "generate"
    /\ configMaps \in SUBSET SnapshotNames
    /\ counter = 1
    /\ runName = <<>>
    /\ name = <<>>
    /\ runtime = "r"
    /\ source = "A"
    /\ file = <<>>
    /\ watch = FALSE
    /\ functions = {}
    /\ runtimes = {}
    /\ startRuntimes = {}
    /\ events = <<>>
    /\ watched = FALSE
    /\ last = NoRec
    /\ prev = NoPrev
    /\ resolved = <<>>
    /\ InstallerIdle

NextGen == generateName

\* The loop is sequential code: an iteration that can run does run.
SpecGen == InitGen /\ [][NextGen]_vars /\ WF_vars(generateName)

-----------------------------------------------------------------------------
\* nameFromFile on its own, for every path up to a length.

PathChars == {"a", Dot, Separator}

PathsUpTo(n) == UNION {[1..k -> PathChars] : k \in 0..n}

InitName ==
    /\ pc = "resolve"
    /\ name \in {<<>>, <<"n">>}
    /\ file \in PathsUpTo(MaxPathLen)
    /\ resolved = <<>>
    /\ configMaps = {}
    /\ counter = 1
    /\ runName = <<>>
    /\ runtime = "r"
    /\ source = ""
    /\ watch = FALSE
    /\ functions = {}
    /\ runtimes = {}
    /\ startRuntimes = {}
    /\ events = <<>>
    /\ watched = FALSE
    /\ last = NoRec
    /\ prev = NoPrev
    /\ InstallerIdle

\* A call p.nameFromFile(p.file).
nameFromFile ==
    /\ pc = "resolve"
    /\ resolved' = NameFromFile(name, file)
    /\ pc' = "resolved"
    /\ UNCHANGED <<name, runtime, source, file, watch, configMaps, runName,
                   counter, functions, runtimes, events, watched, last, prev,
                   startRuntimes>>
    /\ UNCHANGED ivars

NextName == nameFromFile

SpecName == InitName /\ [][NextName]_vars

-----------------------------------------------------------------------------
\* Vocabulary of the properties.

\* A step in which the watch loop draws an event from watcher.Events.
Drew == pc = "watching" /\ Len(events') < Len(events)

\* A step that completes a reconciliation: the initial one of run, or the
\* one of an event drawn by the watch loop.
Reconciled == Drew \/ (pc = "named" /\ pc' # "named")

PerFileErrors == {"read", "empty", "no_name", "unknown_runtime"}

StoreErrors == {"store_list", "store_runtimes", "store_write"}

\* The errors a reconciliation can end with before it lists the runtimes.
EarlierErrors == {"add", "read", "empty", "no_name", "no_source", "store_list",
                  "no_runtime"}

Writes(rec) == IF rec.op = "none" THEN 0 ELSE 1

NamesOf(store) == {r.Name : r \in store}

-----------------------------------------------------------------------------
\* C1: in watch mode a per-file error of a reconciliation (file unreadable,
\* file empty, no name resolvable, runtime not registered) never terminates
\* the process: after it the watch loop is still waiting for events.
C1_PerFileErrorKeepsWatching ==
    (last.kind = "watch" /\ last.err \in PerFileErrors) => pc = "watching"

\* C2: when the watch loop reconciles the same path with the same content
\* twice in a row, the second reconciliation issues no write, and the two
\* together issue at most one Create/Update.
C2_UnchangedContentWritesOnce ==
    [][(/\ Drew
        /\ last.kind = "watch"
        /\ last'.path = last.path
        /\ last'.src = last.src
        /\ last'.err \notin {"add", "read", "empty"})
       => (/\ last'.op = "none"
           /\ functions' = functions
           /\ Writes(last) + Writes(last') <= 1)]_vars

\* Two reconciliations of one path in a row, the first of which wrote and
\* the second of which found the stored source identical.
C2_Witness ==
    /\ last.kind = "watch"
    /\ prev.path = last.path
    /\ prev.op \in {"Create", "Update"}
    /\ last.op = "none"
    /\ last.err = ""
    /\ pc = "watching"

\* C3: a watch reconciliation that read a non-empty file, resolved a name,
\* listed the functions and found the runtime registered issues exactly one
\* write: a Create if the listing holds no resource of that name, an Update
\* carrying the new source if it holds one and every such resource has a
\* different source; a write that succeeds leaves the payload in the store.
C3_ChangedContentWritesOnce ==
    [][(/\ Drew
        /\ last'.err \notin EarlierErrors \cup {"store_runtimes"}
        /\ runtime \in runtimes)
       => LET olds == {r \in functions : r.Name = last'.nm}
          IN  /\ olds = {} =>
                   /\ last'.op = "Create"
                   /\ last'.wsrc = last'.src
                   /\ last'.calls = 3
              /\ (olds # {} /\ \A r \in olds : r.Source # last'.src) =>
                   /\ last'.op = "Update"
                   /\ last'.wsrc = last'.src
                   /\ last'.calls = 3
              /\ (last'.err = "" /\ last'.op # "none") =>
                   [Name |-> last'.nm, Source |-> last'.src,
                    Runtime |-> runtime] \in functions']_vars

\* A watch reconciliation replaced the stored source by the file's.
C3_Witness ==
    /\ last.kind = "watch"
    /\ last.op = "Update"
    /\ last.err = ""
    /\ last.src = "B"
    /\ [Name |-> last.nm, Source |-> "B", Runtime |-> runtime] \in functions

\* C4 as stated: a reconciliation that fails with a per-file error issues no
\* write and leaves the store unchanged; with the runtime not registered it
\* fails with the unknown-runtime error; with the file empty or unreadable
\* it fails before any store call.
C4_FailsBeforeAnyStoreCall ==
    [][Reconciled =>
         /\ last'.err \in PerFileErrors =>
              last'.op = "none" /\ functions' = functions
         /\ (last'.err \notin EarlierErrors \cup {"store_runtimes"}
             /\ runtime \notin runtimes) =>
              last'.err = "unknown_runtime"
         /\ last'.src = "" => last'.op = "none" /\ functions' = functions
         /\ last'.err \in {"read", "empty"} => last'.calls = 0]_vars

\* C4 as amended: the same, except that an empty or unreadable file fails
\* before any store call only in a watch reconciliation; the initial one has
\* issued the start-up List of functions (and nothing else) by then.
C4_FailsBeforeAnyStoreWrite ==
    [][Reconciled =>
         /\ last'.err \in PerFileErrors =>
              last'.op = "none" /\ functions' = functions
         /\ (last'.err \notin EarlierErrors \cup {"store_runtimes"}
             /\ runtime \notin runtimes) =>
              last'.err = "unknown_runtime"
         /\ last'.src = "" => last'.op = "none" /\ functions' = functions
         /\ last'.err \in {"read", "empty"} =>
              last'.calls = IF last'.kind = "initial" THEN 1 ELSE 0]_vars

\* The initial reconciliation failed on an empty file after its List call.
C4_Witness ==
    /\ last.kind = "initial"
    /\ last.err = "empty"
    /\ last.calls = 1
    /\ last.op = "none"
    /\ pc = "returned"

\* C5: when the watch loop draws a rename event of the watched path, the
\* path is registered again and the loop is still running afterwards (here
\* even granted that the registration and every store call succeed).
C5_RenameKeepsWatching ==
    [][(/\ Drew
        /\ "Rename" \in Head(events).Op
        /\ Head(events).Name = file
        /\ last'.err \notin {"add"} \cup StoreErrors)
       => (watched' /\ pc' = "watching")]_vars

C7_NamesUnique ==
    /\ [](\A r1 \in functions, r2 \in functions : r1.Name = r2.Name => r1 = r2)
    /\ [][(Reconciled /\ last'.op = "Create")
          => IF last'.kind = "watch" THEN last'.nm \notin NamesOf(functions)
             ELSE last'.nm \notin configMaps]_vars

\* Events of two paths with one base name: the first created the resource,
\* the second updated it.
C7_Witness ==
    /\ name = <<>>
    /\ prev.path = P_aj
    /\ prev.op = "Create"
    /\ last.path = P_ap
    /\ last.op = "Update"
    /\ last.err = ""
    /\ Cardinality({r \in functions : r.Name = <<"a">>}) = 1

\* C8: a store error of a watch reconciliation terminates the process, and
\* after it no event is drawn and nothing is reconciled or written.
C8_StoreErrorIsFatal ==
    /\ []((last.kind = "watch" /\ last.err \in StoreErrors) => pc = "fatal")
    /\ [][(last.kind = "watch" /\ last.err \in StoreErrors)
          => (events' = events /\ last' = last /\ functions' = functions)]_vars

\* A watch reconciliation whose write failed ended the process.
C8_Witness ==
    /\ last.kind = "watch"
    /\ last.err = "store_write"
    /\ last.op \in {"Create", "Update"}
    /\ pc = "fatal"

-----------------------------------------------------------------------------
\* Decimal numerals, read back digit by digit.

DigitChars == {Digits[i] : i \in 1..10}

DigitValue(c) == (CHOOSE i \in 1..10 : Digits[i] = c) - 1

RECURSIVE NumeralValue(_)
NumeralValue(ds) ==
    IF ds = <<>> THEN 0
    ELSE 10 * NumeralValue(SubSeq(ds, 1, Len(ds) - 1)) + DigitValue(ds[Len(ds)])

\* nm is "function" followed by the decimal numeral of k, k >= 1.
IsFunctionNumbered(nm, k) ==
    /\ Len(nm) > Len(prefix)
    /\ SubSeq(nm, 1, Len(prefix)) = prefix
    /\ LET ds == SubSeq(nm, Len(prefix) + 1, Len(nm))
       IN  /\ \A i \in 1..Len(ds) : ds[i] \in DigitChars
           /\ ds[1] # "0"
           /\ NumeralValue(ds) = k

\* C9: generateName terminates, and the name it returns is function<k> for
\* the least k >= 1 whose function<k> is not in the snapshot; the name is
\* not in the snapshot, and for {function1, function2} it is function3.
C9_GeneratesLeastFreeName ==
    /\ [](pc = "named" =>
            /\ runName \notin configMaps
            /\ \E k \in 1..(Cardinality(configMaps) + 1) :
                 /\ IsFunctionNumbered(runName, k)
                 /\ \A j \in 1..(k - 1) :
                      \E n \in configMaps : IsFunctionNumbered(n, j)
            /\ configMaps = {prefix \o <<"1">>, prefix \o <<"2">>}
                 => runName = prefix \o <<"3">>)
    /\ <>(pc = "named")

\* For the snapshot {function1, function2} the search returned function3.
C9_Witness ==
    /\ pc = "named"
    /\ configMaps = {prefix \o <<"1">>, prefix \o <<"2">>}
    /\ runName = <<"f", "u", "n", "c", "t", "i", "o", "n", "3">>
    /\ counter = 3

\* b is the part of path f after its final separator.
IsBaseNameOf(b, f) ==
    /\ \A i \in 1..Len(b) : b[i] # Separator
    /\ \E d \in 0..Len(f) :
         /\ d + Len(b) = Len(f)
         /\ \A i \in 1..Len(b) : b[i] = f[d + i]
         /\ d > 0 => f[d] = Separator

\* C10: the resolved name is the explicit name whenever one is supplied;
\* otherwise, for a non-empty path, it is the base name without the text
\* from its final dot on, or the whole base name if it has no dot; with
\* neither a name nor a path it is empty.
C10_NameResolution ==
    pc = "resolved" =>
      /\ name # <<>> => resolved = name
      /\ (name = <<>> /\ file = <<>>) => resolved = <<>>
      /\ (name = <<>> /\ file # <<>>) =>
           \E n \in 0..Len(file) :
             LET b == SubSeq(file, n + 1, Len(file))
             IN  /\ IsBaseNameOf(b, file)
                 /\ IF \A i \in 1..Len(b) : b[i] # Dot
                    THEN resolved = b
                    ELSE /\ Len(resolved) < Len(b)
                         /\ \A i \in 1..Len(resolved) : resolved[i] = b[i]
                         /\ b[Len(resolved) + 1] = Dot
                         /\ \A i \in (Len(resolved) + 2)..Len(b) : b[i] # Dot

\* A path with a directory and two dots resolved to the base name up to its
\* final dot.
C10_Witness ==
    /\ pc = "resolved"
    /\ name = <<>>
    /\ file = <<"/", "a", ".", "a">>
    /\ resolved = <<"a">>

-----------------------------------------------------------------------------
\* The installer: installConnectors and installRuntimes reconcile the items
\* of a downloaded bundle against the ConfigMaps of the namespace.

MaxItems == 2

ItemNames == {"x", "y"}

\* An item of the bundle: the YAML of a ConfigMap, or text that is none.
Items ==
    [Name : ItemNames, Data : {"new"}, ok : {TRUE}]
      \cup {[Name |-> "", Data |-> "", ok |-> FALSE]}

Bundles == UNION {[1..k -> Items] : k \in 0..MaxItems}

\* The ConfigMaps of the kind the store can hold before the installer runs.
InitialCms == {[Name |-> n, Data |-> "old"] : n \in ItemNames}

\* toConfigMap: the ConfigMap of an item, or the error of yaml.Unmarshal.
toConfigMap(item) ==
    [cm |-> [Name |-> item.Name, Data |-> item.Data], err |-> ~item.ok]

\* loadList and cms.List answer or fail.
InstallFaults == {"none", "load", "list"}

connectorOperationNoFlag(nm) ==
    IF nm \in existingNames THEN "update" ELSE "create"

\* installConnectors: what the loop does with an item that is to be
\* installed.
connectorOperation(nm) ==
    IF nm \in existingNames
    THEN IF replace THEN "update" ELSE "ignore"
    ELSE "create"

\* installRuntimes: the same decision.
runtimeOperation(nm) ==
    IF nm \in existingNames
    THEN IF replace THEN "update" ELSE "ignore"
    ELSE "create"

\* The write of one item: cms.Update or cms.Create, and what follows it.
WriteItem(operation, cm, wok) ==
    LET w == IF operation = "update" THEN StoreUpdate(cms, cm, wok)
             ELSE StoreCreate(cms, cm, wok)
    IN  /\ cms' = w.store
        /\ calls' = Append(calls, [op |-> operation, name |-> cm.Name,
                                   item |-> idx + 1, ok |-> ~w.err])
        /\ IF w.err
           THEN ipc' = "returned" /\ ierr' = "write" /\ UNCHANGED count
           ELSE count' = count + 1 /\ UNCHANGED <<ipc, ierr>>
        /\ UNCHANGED ignored

InitInstall ==
    /\ ipc = "start"
    /\ icmd \in {"connector", "runtime"}
    /\ listItems \in Bundles
    /\ names \in SUBSET ItemNames
    /\ replace \in BOOLEAN
    /\ list \in IF icmd = "connector" THEN BOOLEAN ELSE {FALSE}
    /\ all \in IF icmd = "connector" THEN BOOLEAN ELSE {FALSE}
    /\ existingNames = {}
    /\ cms \in SUBSET InitialCms
    /\ idx = 0
    /\ count = 0
    /\ ignored = 0
    /\ calls = <<>>
    /\ ierr = ""
    /\ pc = "none"
    /\ name = <<>>
    /\ runtime = ""
    /\ source = ""
    /\ file = <<>>
    /\ watch = FALSE
    /\ configMaps = {}
    /\ runName = <<>>
    /\ counter = 1
    /\ functions = {}
    /\ runtimes = {}
    /\ startRuntimes = {}
    /\ events = <<>>
    /\ watched = FALSE
    /\ last = NoRec
    /\ prev = NoPrev
    /\ resolved = <<>>

cvars == <<pc, name, runtime, source, file, watch, configMaps, runName,
           counter, functions, runtimes, events, watched, last, prev,
           startRuntimes, resolved>>

\* installConnectors up to the loop: the bundle, the listing of the store
\* and the early return when nothing was asked for.
installConnectorsList ==
    /\ ipc = "start"
    /\ icmd = "connector"
    /\ \E fault \in InstallFaults :
         IF fault # "none"
         THEN /\ ipc' = "returned"
              /\ ierr' = fault
              /\ UNCHANGED existingNames
         ELSE /\ existingNames' = NamesOf(cms)
              /\ ipc' = IF ~list /\ ~all /\ names = {}
                        THEN "returned" ELSE "loop"
              /\ UNCHANGED ierr
    /\ UNCHANGED <<icmd, listItems, names, replace, list, all, cms, idx,
                   count, ignored, calls>>
    /\ UNCHANGED cvars

\* One iteration of the loop of installConnectors.
installConnectorsItem ==
    /\ ipc = "loop"
    /\ icmd = "connector"
    /\ idx < Len(listItems)
    /\ idx' = idx + 1
    /\ \E wok \in BOOLEAN :
         LET c == toConfigMap(listItems[idx + 1])
             nm == c.cm.Name
             operation == connectorOperation(nm)
         IN  IF c.err
             THEN /\ ipc' = "returned"
                  /\ ierr' = "convert"
                  /\ UNCHANGED <<cms, count, ignored, calls>>
             ELSE IF list
             THEN /\ count' = count + 1
                  /\ UNCHANGED <<ipc, ierr, cms, ignored, calls>>
             ELSE IF names # {} /\ nm \notin names
             THEN UNCHANGED <<ipc, ierr, cms, count, ignored, calls>>
             ELSE IF operation = "ignore"
             THEN /\ ignored' = ignored + 1
                  /\ UNCHANGED <<ipc, ierr, cms, count, calls>>
             ELSE WriteItem(operation, c.cm, wok)
    /\ UNCHANGED <<icmd, listItems, names, replace, list, all, existingNames>>
    /\ UNCHANGED cvars

\* installConnectors after the loop: the message, and nil.
installConnectorsEnd ==
    /\ ipc = "loop"
    /\ icmd = "connector"
    /\ idx = Len(listItems)
    /\ ipc' = "returned"
    /\ UNCHANGED <<icmd, listItems, names, replace, list, all, existingNames,
                   cms, idx, count, ignored, calls, ierr>>
    /\ UNCHANGED cvars

\* installRuntimes up to the loop.
installRuntimesList ==
    /\ ipc = "start"
    /\ icmd = "runtime"
    /\ \E fault \in InstallFaults :
         IF fault # "none"
         THEN /\ ipc' = "returned"
              /\ ierr' = fault
              /\ UNCHANGED existingNames
         ELSE /\ existingNames' = NamesOf(cms)
              /\ ipc' = "loop"
              /\ UNCHANGED ierr
    /\ UNCHANGED <<icmd, listItems, names, replace, list, all, cms, idx,
                   count, ignored, calls>>
    /\ UNCHANGED cvars

\* One iteration of the loop of installRuntimes.
installRuntimesItem ==
    /\ ipc = "loop"
    /\ icmd = "runtime"
    /\ idx < Len(listItems)
    /\ idx' = idx + 1
    /\ \E wok \in BOOLEAN :
         LET c == toConfigMap(listItems[idx + 1])
             nm == c.cm.Name
             operation == runtimeOperation(nm)
         IN  IF c.err
             THEN /\ ipc' = "returned"
                  /\ ierr' = "convert"
                  /\ UNCHANGED <<cms, count, ignored, calls>>
             ELSE IF operation = "ignore"
             THEN /\ ignored' = ignored + 1
                  /\ UNCHANGED <<ipc, ierr, cms, count, calls>>
             ELSE WriteItem(operation, c.cm, wok)
    /\ UNCHANGED <<icmd, listItems, names, replace, list, all, existingNames>>
    /\ UNCHANGED cvars

\* installRuntimes after the loop.
installRuntimesEnd ==
    /\ ipc = "loop"
    /\ icmd = "runtime"
    /\ idx = Len(listItems)
    /\ ipc' = "returned"
    /\ UNCHANGED <<icmd, listItems, names, replace, list, all, existingNames,
                   cms, idx, count, ignored, calls, ierr>>
    /\ UNCHANGED cvars

NextInstall ==
    \/ installConnectorsList
    \/ installConnectorsItem
    \/ installConnectorsEnd
    \/ installRuntimesList
    \/ installRuntimesItem
    \/ installRuntimesEnd

SpecInstall == InitInstall /\ [][NextInstall]_vars

-----------------------------------------------------------------------------
\* Vocabulary of the installer properties.

\* Item i of the bundle is selected for install: it is a ConfigMap, the
\* command is not only listing, and the arguments or --all cover its name
\* (install runtime takes every item).
SelectedForInstall(i) ==
    /\ listItems[i].ok
    /\ \/ icmd = "runtime"
       \/ /\ ~list
          /\ IF names = {} THEN all ELSE listItems[i].Name \in names

\* The store writes issued for item i.
CallsFor(i) == SelectSeq(calls, LAMBDA c : c.item = i)

\* The store holds the name of item i when the loop comes to it: it held it
\* at the listing, or the write of an earlier item put it there.
ExistsInStore(i) ==
    \/ listItems[i].Name \in existingNames
    \/ \E j \in 1..Len(calls) :
         /\ calls[j].item < i
         /\ calls[j].ok
         /\ calls[j].name = listItems[i].Name

\* The items among the first n that were skipped as existing.
IgnoredItems(n) ==
    {i \in 1..n : /\ SelectedForInstall(i)
                  /\ listItems[i].Name \in existingNames
                  /\ ~replace}

\* The items among the first n whose write succeeded.
InstalledItems(n) ==
    {i \in 1..n : \E j \in 1..Len(calls) : calls[j].item = i /\ calls[j].ok}

\* C11 as stated: once the installer has returned with the bundle loaded and
\* the store listed, every item selected for install was reconciled: an item
\* whose name the store held was not written with the replace flag off and
\* was written with one Update with it on, and an item whose name the store
\* did not hold was written with exactly one Create.
C11_EverySelectedItemReconciled ==
    (ipc = "returned" /\ ierr \notin {"load", "list"}) =>
      \A i \in 1..Len(listItems) :
        SelectedForInstall(i) =>
          LET cs == CallsFor(i)
          IN  IF ExistsInStore(i)
              THEN IF replace
                   THEN Len(cs) = 1 /\ cs[1].op = "update"
                   ELSE cs = <<>>
              ELSE Len(cs) = 1 /\ cs[1].op = "create"

\* C11, amended: for every selected item the loop has come to, the decision
\* follows the listing taken before the loop: a name of the listing is not
\* written with the replace flag off and is written with one Update with it
\* on, a name not of the listing is written with exactly one Create; the
\* skipped items are the ones counted as ignored, and outside list mode the
\* items counted as installed are the ones whose write succeeded.  Items
\* the loop never came to are not written.
C11_ReachedItemsFollowListing ==
    /\ \A i \in 1..idx :
         SelectedForInstall(i) =>
           LET cs == CallsFor(i)
               nm == listItems[i].Name
           IN  IF nm \in existingNames
               THEN IF replace
                    THEN /\ Len(cs) = 1
                         /\ cs[1].op = "update"
                         /\ cs[1].name = nm
                    ELSE cs = <<>>
               ELSE /\ Len(cs) = 1
                    /\ cs[1].op = "create"
                    /\ cs[1].name = nm
    /\ \A j \in 1..Len(calls) :
         calls[j].item <= idx /\ SelectedForInstall(calls[j].item)
    /\ ignored = Cardinality(IgnoredItems(idx))
    /\ ~list => count = Cardinality(InstalledItems(idx))

\* A bundle of two items installed with the replace flag off: the one the
\* store held was skipped and counted as ignored, the other was created.
C11_Witness ==
    /\ ipc = "returned"
    /\ ierr = ""
    /\ ~replace
    /\ Len(listItems) = 2
    /\ listItems[1].Name \in existingNames
    /\ listItems[2].Name \notin existingNames
    /\ ignored = 1
    /\ count = 1
    /\ Len(calls) = 1
    /\ calls[1].op = "create"
    /\ calls[1].item = 2

-----------------------------------------------------------------------------
\* C12: the initial invocation, when createFunction succeeds (valid source,
\* runtime registered), issues exactly one store write after the two List
\* calls, chosen from the start-up snapshot alone: Update if the name is a
\* key of the snapshot, Create otherwise, whatever source the store holds
\* for that name; the write carries the source read, and changes the store
\* by that one resource or, when it fails, not at all.  The watch loop is
\* entered only from the initial invocation, after its write succeeded.
C12_InitialWriteFromSnapshot ==
    [][/\ (pc = "named" /\ pc' # "named" /\ last'.err \in {"", "store_write"}) =>
            /\ last'.kind = "initial"
            /\ last'.op = IF runName \in configMaps THEN "Update" ELSE "Create"
            /\ last'.calls = 3
            /\ last'.wsrc = last'.src
            /\ LET cm == [Name |-> runName, Source |-> last'.src,
                          Runtime |-> runtime]
               IN  functions' =
                     IF last'.err # "" THEN functions
                     ELSE IF runName \in configMaps
                     THEN {r \in functions : r.Name # runName} \cup {cm}
                     ELSE functions \cup {cm}
       /\ (pc # "watching" /\ pc' = "watching") =>
            /\ pc = "named"
            /\ last'.kind = "initial"
            /\ last'.err = ""
            /\ Writes(last') = 1
      ]_vars

\* The initial invocation updated the resource of the snapshot although the
\* store already held the source it wrote, and then entered the watch loop.
C12_Witness ==
    /\ pc = "watching"
    /\ last.kind = "initial"
    /\ last.err = ""
    /\ last.op = "Update"
    /\ last.nm = <<"a">>
    /\ last.nm \in configMaps
    /\ last.src = "A"
    /\ last.calls = 3
    /\ [Name |-> <<"a">>, Source |-> "A", Runtime |-> "q"] \in InitialFunctions
    /\ [Name |-> <<"a">>, Source |-> "A", Runtime |-> "r"] \in functions

=============================================================================
